---------------------------- MODULE Spec2Model ----------------------------
(***************************************************************************)
(* A model of tools/agents/market_research_scout.py: the market research   *)
(* scout that fetches feeds, scores every item against the keyword table,  *)
(* and merges the top opportunities into the persisted task board.         *)
(*                                                                         *)
(* A str is a string; CHARS gives its characters, a sequence of             *)
(* one-character strings, so that lower(), the substring test              *)
(* `term in text` and slugify() are computed character by character.       *)
(* Time is an integer number of seconds.  An optional value (Python's      *)
(* None) is a sequence of length 0 or 1.                                   *)
(***************************************************************************)
EXTENDS Integers, Sequences, FiniteSets, TLC

VARIABLES
  clock,       \* the wall clock, read by now_utc()
  board_json,  \* the file at board_json_path
  board_md,    \* the file at board_md_path
  tickets,     \* the files under tickets_dir, by ticket path
  reports,     \* the files under report_dir, by report path
  summary,     \* the file at summary_json_path
  run,         \* the arguments and locals of the latest main() when it returned
  edits,       \* how many manual edits the board has had
  probe        \* a single call of a pure function: its arguments and result

vars == <<clock, board_json, board_md, tickets, reports, summary, run, edits, probe>>

None == <<>>
Some(x) == <<x>>

Day == 24 * 60 * 60

---------------------------------------------------------------------------
(* Text *)

\* The characters of every string the model holds: a keyword of the table, a
\* title or a link an entry may carry.
CHARS ==
  "pricing" :> <<"p","r","i","c","i","n","g">>
  @@ "price" :> <<"p","r","i","c","e">>
  @@ "billing" :> <<"b","i","l","l","i","n","g">>
  @@ "subscription" :> <<"s","u","b","s","c","r","i","p","t","i","o","n">>
  @@ "usage-based" :> <<"u","s","a","g","e","-","b","a","s","e","d">>
  @@ "seat" :> <<"s","e","a","t">>
  @@ "ai" :> <<"a","i">>
  @@ "agent" :> <<"a","g","e","n","t">>
  @@ "automation" :> <<"a","u","t","o","m","a","t","i","o","n">>
  @@ "copilot" :> <<"c","o","p","i","l","o","t">>
  @@ "llm" :> <<"l","l","m">>
  @@ "assistant" :> <<"a","s","s","i","s","t","a","n","t">>
  @@ "release" :> <<"r","e","l","e","a","s","e">>
  @@ "changelog" :> <<"c","h","a","n","g","e","l","o","g">>
  @@ "github" :> <<"g","i","t","h","u","b">>
  @@ "workflow" :> <<"w","o","r","k","f","l","o","w">>
  @@ "developer" :> <<"d","e","v","e","l","o","p","e","r">>
  @@ "devops" :> <<"d","e","v","o","p","s">>
  @@ "security" :> <<"s","e","c","u","r","i","t","y">>
  @@ "compliance" :> <<"c","o","m","p","l","i","a","n","c","e">>
  @@ "soc2" :> <<"s","o","c","2">>
  @@ "audit" :> <<"a","u","d","i","t">>
  @@ "gdpr" :> <<"g","d","p","r">>
  @@ "hipaa" :> <<"h","i","p","a","a">>
  @@ "growth" :> <<"g","r","o","w","t","h">>
  @@ "distribution" :> <<"d","i","s","t","r","i","b","u","t","i","o","n">>
  @@ "marketplace" :> <<"m","a","r","k","e","t","p","l","a","c","e">>
  @@ "partnership" :> <<"p","a","r","t","n","e","r","s","h","i","p">>
  @@ "channel" :> <<"c","h","a","n","n","e","l">>
  @@ "AI pricing" :> <<"A","I"," ","p","r","i","c","i","n","g">>
  @@ "AI pricing!" :> <<"A","I"," ","p","r","i","c","i","n","g","!">>
  @@ "AI agent pricing audit" :> <<"A","I"," ","a","g","e","n","t"," ","p","r","i","c","i","n","g"," ","a","u","d","i","t">>
  @@ "GitHub" :> <<"G","i","t","H","u","b">>
  @@ "Growth" :> <<"G","r","o","w","t","h">>
  @@ "Email chain" :> <<"E","m","a","i","l"," ","c","h","a","i","n">>
  @@ "Hello" :> <<"H","e","l","l","o">>
  @@ "Price" :> <<"P","r","i","c","e">>
  @@ "x.io/1" :> <<"x",".","i","o","/","1">>
  @@ "x.io/2" :> <<"x",".","i","o","/","2">>
  @@ "x.io/3" :> <<"x",".","i","o","/","3">>
  @@ "x.io/llm" :> <<"x",".","i","o","/","l","l","m">>
  @@ "" :> <<>>

\* the characters of a string
Chars(s) == CHARS[s]

UPPER == <<"A","B","C","D","E","F","G","H","I","J","K","L","M",
           "N","O","P","Q","R","S","T","U","V","W","X","Y","Z">>
LOWER == <<"a","b","c","d","e","f","g","h","i","j","k","l","m",
           "n","o","p","q","r","s","t","u","v","w","x","y","z">>
DIGITS == <<"0","1","2","3","4","5","6","7","8","9">>

\* The characters below "a" that occur in keywords, in code point order,
\* followed by the lower-case letters: the order sorted() compares terms by.
CODE_ORDER == <<"-">> \o DIGITS \o LOWER

IndexOf(c, s) == IF \E i \in 1..Len(s) : s[i] = c
                 THEN CHOOSE i \in 1..Len(s) : s[i] = c
                 ELSE 0

\* str.lower() on one character
LowerChar(c) == IF IndexOf(c, UPPER) > 0 THEN LOWER[IndexOf(c, UPPER)] ELSE c

\* str.lower()
Lower(s) == [i \in 1..Len(s) |-> LowerChar(s[i])]

\* `term in text`
Contains(term, text) ==
  \E i \in 1..(Len(text) - Len(term) + 1) : SubSeq(text, i, i + Len(term) - 1) = term

\* a < b as Python compares two str
RECURSIVE StrLess(_, _)
StrLess(a, b) ==
  IF b = <<>> THEN FALSE
  ELSE IF a = <<>> THEN TRUE
  ELSE IF a[1] = b[1] THEN StrLess(Tail(a), Tail(b))
  ELSE IndexOf(a[1], CODE_ORDER) < IndexOf(b[1], CODE_ORDER)

\* sorted(set(xs)) for a list of str
RECURSIVE SortedSet(_)
SortedSet(S) ==
  IF S = {} THEN <<>>
  ELSE LET m == CHOOSE x \in S : \A y \in S \ {x} : StrLess(Chars(x), Chars(y))
       IN  <<m>> \o SortedSet(S \ {m})

Range(s) == {s[i] : i \in DOMAIN s}

RECURSIVE Sum(_, _)
Sum(f, S) == IF S = {} THEN 0
             ELSE LET x == CHOOSE y \in S : TRUE IN f[x] + Sum(f, S \ {x})

Max0(n) == IF n > 0 THEN n ELSE 0

\* a function as the explicit table of its values, computed once
Tabulated(f) == CHOOSE g \in {f} : g = f
Min(a, b) == IF a < b THEN a ELSE b

---------------------------------------------------------------------------
(* The keyword table and the playbook *)

KEYWORD_WEIGHTS ==
  <<
     [category |-> "pricing", weight |-> 4,
      terms |-> <<"pricing", "price", "billing", "subscription", "usage-based", "seat">>],
     [category |-> "ai_automation", weight |-> 4,
      terms |-> <<"ai", "agent", "automation", "copilot", "llm", "assistant">>],
     [category |-> "developer_workflow", weight |-> 3,
      terms |-> <<"release", "changelog", "github", "workflow", "developer", "devops">>],
     [category |-> "compliance", weight |-> 3,
      terms |-> <<"security", "compliance", "soc2", "audit", "gdpr", "hipaa">>],
     [category |-> "go_to_market", weight |-> 2,
      terms |-> <<"growth", "distribution", "marketplace", "partnership", "channel">>]
  >>

\* PLAYBOOK_BY_CATEGORY: each template's three texts, named by their category
PLAYBOOK_CATEGORIES ==
  {"pricing", "ai_automation", "developer_workflow", "compliance", "go_to_market", "general"}

PLAYBOOK_BY_CATEGORY ==
  [c \in PLAYBOOK_CATEGORIES |->
     [opportunity |-> <<"opportunity", c>>, plan |-> <<"plan", c>>,
      experiment |-> <<"experiment", c>>]]

\* build_action_plan(op)
build_action_plan(op) ==
  LET template == IF op.category \in DOMAIN PLAYBOOK_BY_CATEGORY
                  THEN PLAYBOOK_BY_CATEGORY[op.category]
                  ELSE PLAYBOOK_BY_CATEGORY["general"]
  IN  [opportunity |-> template.opportunity, plan |-> template.plan,
       experiment |-> template.experiment]

---------------------------------------------------------------------------
(* score_item *)

RECENT_DAYS == 7
MONTH_DAYS == 30
RECENT_BONUS == 3
MONTH_BONUS == 1
THRESHOLD == 4

\* FeedItem(title, link, published_at, source_feed)
FeedItem(title, link, published_at, source_feed) ==
  [title |-> title, link |-> link, published_at |-> published_at,
   source_feed |-> source_feed]

\* the haystack: f"{item.title} {item.link}".lower()
ItemText(item) == Lower(Chars(item.title) \o <<" ">> \o Chars(item.link))

\* the terms of category k that occur in text, in table order (the inner loop)
TermHits(k, text) ==
  SelectSeq(KEYWORD_WEIGHTS[k].terms, LAMBDA term : Contains(Chars(term), text))

\* cat_score of category k after the inner loop
CatScore(k, text) == Len(TermHits(k, text)) * KEYWORD_WEIGHTS[k].weight

\* total after the outer loop over the first k categories
RECURSIVE KeywordTotal(_, _)
KeywordTotal(k, text) ==
  IF k = 0 THEN 0 ELSE KeywordTotal(k - 1, text) + CatScore(k, text)

\* matched_terms after the outer loop over the first k categories
RECURSIVE MatchedList(_, _)
MatchedList(k, text) ==
  IF k = 0 THEN <<>> ELSE MatchedList(k - 1, text) \o TermHits(k, text)

\* category_scores.items(): the categories with a positive score, in table order
CategoryScores(text) ==
  SelectSeq([k \in 1..Len(KEYWORD_WEIGHTS) |->
               [category |-> KEYWORD_WEIGHTS[k].category, score |-> CatScore(k, text)]],
            LAMBDA e : e.score > 0)

\* the last item with the largest score
LastMax(items) ==
  LET last == CHOOSE i \in 1..Len(items) :
                /\ \A j \in 1..Len(items) : items[j].score <= items[i].score
                /\ \A j \in (i + 1)..Len(items) : items[j].score < items[i].score
  IN  items[last]

\* max(items, key=score): the first item with the largest score
FirstMax(items) ==
  LET first == CHOOSE i \in 1..Len(items) :
                 /\ \A j \in 1..Len(items) : items[j].score <= items[i].score
                 /\ \A j \in 1..(i - 1) : items[j].score < items[i].score
  IN  items[first]

\* the recency tiers with < for <=
RecencyBonusExclusive(published_at, now) ==
  IF published_at = None THEN 0
  ELSE LET age == now - published_at[1]
       IN  IF age < RECENT_DAYS * Day THEN RECENT_BONUS
           ELSE IF age < MONTH_DAYS * Day THEN MONTH_BONUS
           ELSE 0

\* the recency bonus of an item published at published_at, scored at now
RecencyBonus(published_at, now) ==
  IF published_at = None THEN 0
  ELSE LET age == now - published_at[1]
       IN  IF age <= RECENT_DAYS * Day THEN RECENT_BONUS
           ELSE IF age <= MONTH_DAYS * Day THEN MONTH_BONUS
           ELSE 0

\* a threshold the recency bonus alone reaches
AdmittedFromBonus(total) == ~(total < RECENT_BONUS)

\* the threshold test with > for >=
AdmittedAbove(total) == total > THRESHOLD

\* whether a total clears the admission threshold
Admitted(total) == ~(total < THRESHOLD)

\* score_item(item), with now the value now_utc() returns
score_item(item, now) ==
  LET text  == ItemText(item)
      total == KeywordTotal(Len(KEYWORD_WEIGHTS), text)
                 + RecencyBonus(item.published_at, now)
      category_scores == CategoryScores(text)
      category == IF category_scores # <<>> THEN FirstMax(category_scores).category
                  ELSE "general"
  IN  IF ~Admitted(total) THEN None
      ELSE Some([item |-> item, score |-> total, category |-> category,
                 matched_terms |->
                   SortedSet(Range(MatchedList(Len(KEYWORD_WEIGHTS), text)))])

---------------------------------------------------------------------------
(* Small helpers of main() *)

\* hashlib.sha1(link).hexdigest()[:10], taken to be free of collisions:
\* the id names the link it was derived from
stable_id(link) == [prefix |-> "mr", digest |-> link]

\* datetime.isoformat() of a UTC time: one text per instant, ordered as time is
isoformat(t) == [iso |-> t]

\* now.strftime('%Y%m%d') and now.date().isoformat(): the UTC day of an instant
utc_date(t) == t \div Day

SLUG_MAX == 72

ALNUM == Range(LOWER) \cup Range(DIGITS)

MARKET_OPPORTUNITY ==
  <<"m","a","r","k","e","t","-","o","p","p","o","r","t","u","n","i","t","y">>

\* re.sub(r"[^a-z0-9]+", "-", s): every run of other characters becomes one "-".
\* inRun says that the character before s belonged to such a run.
RECURSIVE CollapseRuns(_, _)
CollapseRuns(s, inRun) ==
  IF s = <<>> THEN <<>>
  ELSE IF s[1] \in ALNUM THEN <<s[1]>> \o CollapseRuns(Tail(s), FALSE)
  ELSE IF inRun THEN CollapseRuns(Tail(s), TRUE)
  ELSE <<"-">> \o CollapseRuns(Tail(s), TRUE)

\* s.strip("-")
RECURSIVE StripHyphens(_)
StripHyphens(s) ==
  IF s = <<>> THEN s
  ELSE IF s[1] = "-" THEN StripHyphens(Tail(s))
  ELSE IF s[Len(s)] = "-" THEN StripHyphens(SubSeq(s, 1, Len(s) - 1))
  ELSE s

\* slugify(value)
slugify(value) ==
  LET slug == StripHyphens(CollapseRuns(Lower(Chars(value)), FALSE))
      cut  == SubSeq(slug, 1, Min(Len(slug), SLUG_MAX))
  IN  IF cut # <<>> THEN cut ELSE MARKET_OPPORTUNITY

\* A text given character by character is [chars |-> <<...>>]; the texts
\* main() composes are records of their parts, which hold no line ending of
\* their own.
CR == "\r"
LF == "\n"

\* what reading in text mode makes of the characters stored (newline=None:
\* "\r\n" and "\r" are read as "\n")
RECURSIVE UniversalNewlines(_)
UniversalNewlines(chars) ==
  IF chars = <<>> THEN <<>>
  ELSE IF chars[1] = CR
       THEN <<LF>> \o UniversalNewlines(IF Len(chars) > 1 /\ chars[2] = LF
                                        THEN Tail(Tail(chars)) ELSE Tail(chars))
       ELSE <<chars[1]>> \o UniversalNewlines(Tail(chars))

\* path.read_text(encoding="utf-8") on what the file stores
read_text(stored) ==
  IF "chars" \in DOMAIN stored
  THEN [chars |-> UniversalNewlines(stored.chars)]
  ELSE stored

\* what path.write_text(content, encoding="utf-8") stores ("\n" is written
\* as os.linesep, which is "\n")
write_text(content) == content

\* write_if_changed(path, content) on the file now at path:
\* the file afterwards, and the value returned
write_if_changed(file, content) ==
  LET existing == IF file # None THEN Some(read_text(file[1])) ELSE None
  IN  IF existing = Some(content)
      THEN [file |-> file, changed |-> FALSE]
      ELSE [file |-> Some(write_text(content)), changed |-> TRUE]

\* the file at path in a directory of files (None: there is none)
FileAt(dir, path) == IF path \in DOMAIN dir THEN Some(dir[path]) ELSE None

\* the directory after the file at path was set to content
WithFile(dir, path, content) ==
  [p \in DOMAIN dir \cup {path} |-> IF p = path THEN content ELSE dir[p]]

---------------------------------------------------------------------------
(* The inputs the model draws from *)

\* the feed list of the run (--feeds)
FEEDS == <<"feed-a", "feed-b">>

MaxRuns == 2      \* the runs of main() a behaviour holds
MaxEdits == 1     \* the manual edits a behaviour holds

TITLE_AI_PRICING == "AI pricing"
TITLE_AI_AGENT == "AI agent pricing audit"
TITLE_GITHUB == "GitHub"
TITLE_GROWTH == "Growth"
TITLE_AI_PRICING_MARKED == "AI pricing!"

LINK_1 == "x.io/1"
LINK_2 == "x.io/2"
LINK_3 == "x.io/3"

\* the instant the dated entries were published, and the instants main() runs at:
\* exactly seven days later, and one second after that
PUBLISHED == 33 * Day
NOW_VALUES == {PUBLISHED + RECENT_DAYS * Day, PUBLISHED + RECENT_DAYS * Day + 1}

Entry(title, link, published_at) ==
  [title |-> title, link |-> link, published_at |-> published_at]

\* the entries the feeds may serve: two of one link (the second one dated,
\* with another title), and one each of two more links
E1 == Entry(TITLE_AI_PRICING, LINK_1, None)
E1B == Entry(TITLE_AI_AGENT,   LINK_1, Some(PUBLISHED))
E2 == Entry(TITLE_GITHUB,     LINK_2, Some(PUBLISHED))
E3 == Entry(TITLE_GROWTH,     LINK_3, Some(PUBLISHED))

\* an entry of a third link dated the day before 1970-01-01T00:00:00Z, its
\* title the first title with a mark added
E4 == Entry(TITLE_AI_PRICING_MARKED, LINK_3, Some(0 - Day))

\* an undated entry of a second link and an entry of the first link dated the
\* day after 1970-01-01T00:00:00Z, both scoring as E1 and E4 do
E5 == Entry(TITLE_AI_PRICING, LINK_2, None)
E6 == Entry(TITLE_AI_PRICING_MARKED, LINK_1, Some(Day))

POOL == {E1, E1B, E2, E3, E4}

\* the entries served to single calls of the scan
PROBE_POOL == {E1, E1B, E4, E5, E6}

Returns(entries) == [ok |-> TRUE, error |-> "", entries |-> entries]
Raises(error) == [ok |-> FALSE, error |-> error, entries |-> <<>>]

\* what parse_feed_items does for each feed: it returns entries, or it raises
RESPONSES ==
  [f \in Range(FEEDS) |->
     IF f = FEEDS[1]
     THEN {Raises("timed out"), Returns(<<E2, E1>>)}
     ELSE {Returns(<<>>), Returns(<<E1B>>), Returns(<<E3, E2>>)}]

SERVED == {served \in [Range(FEEDS) -> UNION Range(RESPONSES)] :
             \A f \in Range(FEEDS) : served[f] \in RESPONSES[f]}

\* the same, and for the second feed an answer that fails after the first one
\* was read, and one with the entry of the marked title
STEADY_RESPONSES ==
  [f \in Range(FEEDS) |->
     IF f = FEEDS[1] THEN RESPONSES[f]
     ELSE RESPONSES[f] \cup {Returns(<<E4>>), Raises("not well-formed")}]

STEADY_SERVED == {served \in [Range(FEEDS) -> UNION Range(STEADY_RESPONSES)] :
                    \A f \in Range(FEEDS) : served[f] \in STEADY_RESPONSES[f]}

\* every item main() can be given, and score_item and slugify tabulated over
\* the items and titles of the model
ITEMS ==
  {FeedItem(e.title, e.link, e.published_at, f) :
     e \in POOL \cup PROBE_POOL, f \in Range(FEEDS)}

SCORE_TABLE ==
  Tabulated([item \in ITEMS, now \in NOW_VALUES |-> score_item(item, now)])

SLUG_TABLE ==
  Tabulated([title \in {e.title : e \in POOL \cup PROBE_POOL} |-> slugify(title)])

MAX_OPPORTUNITIES_DEFAULT == 6
MAX_NEW_TICKETS_DEFAULT == 3

\* --max-opportunities and --max-new-tickets
CAPS ==
  { [max_opportunities |-> MAX_OPPORTUNITIES_DEFAULT, max_new_tickets |-> MAX_NEW_TICKETS_DEFAULT],
    [max_opportunities |-> MAX_OPPORTUNITIES_DEFAULT, max_new_tickets |-> 1],
    [max_opportunities |-> MAX_OPPORTUNITIES_DEFAULT, max_new_tickets |-> -1],
    [max_opportunities |-> 1, max_new_tickets |-> MAX_NEW_TICKETS_DEFAULT] }

\* a manual edit of one task of the board file
MANUAL_EDITS ==
  { [status |-> "done", priority |-> "P3", owner |-> "alice",
     ticket_path |-> [date |-> 0, slug |-> <<"m","o","v","e","d">>]] }

---------------------------------------------------------------------------
(* Fetch, dedup, score, rank *)

\* the loop over feeds, after the first k of them: parse_feed_items(feed_url)
\* either returns the feed's items or raises, as served[feed_url] says;
\* attempted lists the calls of parse_feed_items made
RECURSIVE FetchLoop(_, _)
\* the loop giving up at the first feed that raises
FetchLoopAborting(k, served) ==
  IF k = 0 THEN [fetched_items |-> <<>>, feed_errors |-> <<>>, attempted |-> <<>>]
  ELSE LET before   == FetchLoop(k - 1, served)
           feed_url == FEEDS[k]
           resp     == served[feed_url]
           items    == [i \in 1..Len(resp.entries) |->
                          FeedItem(resp.entries[i].title, resp.entries[i].link,
                                   resp.entries[i].published_at, feed_url)]
       IN  IF before.feed_errors # <<>> THEN before
           ELSE IF resp.ok
           THEN [before EXCEPT !.attempted = Append(@, feed_url),
                               !.fetched_items = @ \o items]
           ELSE [before EXCEPT !.attempted = Append(@, feed_url),
                               !.feed_errors = Append(@, <<feed_url, resp.error>>)]

FetchLoop(k, served) ==
  IF k = 0 THEN [fetched_items |-> <<>>, feed_errors |-> <<>>, attempted |-> <<>>]
  ELSE LET before   == FetchLoop(k - 1, served)
           feed_url == FEEDS[k]
           resp     == served[feed_url]
           items    == [i \in 1..Len(resp.entries) |->
                          FeedItem(resp.entries[i].title, resp.entries[i].link,
                                   resp.entries[i].published_at, feed_url)]
       IN  IF resp.ok
           THEN [before EXCEPT !.attempted = Append(@, feed_url),
                               !.fetched_items = @ \o items]
           ELSE [before EXCEPT !.attempted = Append(@, feed_url),
                               !.feed_errors = Append(@, <<feed_url, resp.error>>)]

\* the dedup test letting a dated item through whatever was seen
KeepsItemOrDated(item, seen_links) ==
  item.link \notin seen_links \/ item.published_at # None

\* whether the dedup loop keeps the item it is at
KeepsItem(item, seen_links) == item.link \notin seen_links

\* the dedup loop, after the first k fetched items
RECURSIVE DedupLoop(_, _)
DedupLoop(k, fetched_items) ==
  IF k = 0 THEN [seen_links |-> {}, deduped |-> <<>>]
  ELSE LET before == DedupLoop(k - 1, fetched_items)
           item   == fetched_items[k]
       IN  IF KeepsItem(item, before.seen_links)
           THEN [seen_links |-> before.seen_links \cup {item.link},
                 deduped    |-> Append(before.deduped, item)]
           ELSE before

Dedup(fetched_items) == DedupLoop(Len(fetched_items), fetched_items).deduped

\* the scoring loop, after the first k deduplicated items
RECURSIVE ScoreLoop(_, _, _)
ScoreLoop(k, deduped, now) ==
  IF k = 0 THEN <<>>
  ELSE ScoreLoop(k - 1, deduped, now) \o SCORE_TABLE[deduped[k], now]

\* the sort key of an opportunity:
\* (-op.score, -(int(op.item.published_at.timestamp()) if op.item.published_at else 0))
SortKey(op) ==
  <<0 - op.score,
    0 - (IF op.item.published_at # None THEN op.item.published_at[1] ELSE 0)>>

\* a < b for two sort keys (tuples compare component by component)
KeyLess(a, b) == a[1] < b[1] \/ (a[1] = b[1] /\ a[2] < b[2])

\* list.sort(key=...) on the keys of a list: the order it puts the indices in.
\* The sort is stable: index j comes before index i when its key is less, or
\* when neither key is less than the other and j < i.
SortOrder(keys) ==
  [r \in 1..Len(keys) |->
     CHOOSE i \in 1..Len(keys) :
       Cardinality({j \in 1..Len(keys) :
                      \/ KeyLess(keys[j], keys[i])
                      \/ (~KeyLess(keys[i], keys[j]) /\ j < i)}) = r - 1]

\* opportunities.sort(key=...)
SortByKey(ops) ==
  LET order == SortOrder([i \in 1..Len(ops) |-> SortKey(ops[i])])
  IN  [i \in 1..Len(ops) |-> ops[order[i]]]

\* opportunities[: max(0, max_opportunities)]
TopOf(opportunities, max_opportunities) ==
  SubSeq(opportunities, 1, Min(Len(opportunities), Max0(max_opportunities)))

---------------------------------------------------------------------------
(* The board *)

COLUMNS ==
  << [id |-> "market-intel", name |-> "Market Intel"],
     [id |-> "paas-backlog", name |-> "PaaS Backlog"],
     [id |-> "paas-build",   name |-> "PaaS Build"],
     [id |-> "validate",     name |-> "Validate"],
     [id |-> "done",         name |-> "Done"] >>

BOARD_VERSION == 1

\* default_board, built at now
default_board(now) ==
  [version |-> BOARD_VERSION, updated_at |-> isoformat(now), columns |-> COLUMNS,
   tasks |-> <<>>, history |-> <<>>]

\* The content of a board file: text that json.loads accepts, with the value
\* it yields, or text that it rejects.
BoardText(board) == [parses |-> TRUE, value |-> board]
Garbage == [parses |-> FALSE, value |-> default_board(0)]

\* a load that trusts whatever the file holds
LoadJsonUnchecked(file, default) ==
  IF file = None THEN default ELSE file[1].value

\* load_json_or_default(path, default) on the file now at path
load_json_or_default(file, default) ==
  IF file = None THEN default
  ELSE IF file[1].parses THEN file[1].value
  ELSE default

\* existing_by_source built on a key no link equals: no task is ever found
ExistingByWrongKey(existing_tasks) == [l \in {} |-> 0]

\* existing_by_source: for every link, the task of that link; a later task
\* of the same link replaces an earlier one.  Tasks are named by their index.
ExistingBySource(existing_tasks) ==
  LET links == {existing_tasks[i].source.link : i \in 1..Len(existing_tasks)}
  IN  [l \in links |->
         CHOOSE i \in 1..Len(existing_tasks) :
           /\ existing_tasks[i].source.link = l
           /\ \A j \in (i + 1)..Len(existing_tasks) : existing_tasks[j].source.link # l]

PRIORITY_P1_SCORE == 10

\* the ticket path of a task created at now for an item of this title,
\* relative to the repository root: tickets_dir / "<date>-<slug>.md"
TicketPath(now, title) == [date |-> utc_date(now), slug |-> SLUG_TABLE[title]]

\* the task dictionary built for a new opportunity
NewTask(op, action_plan, now) ==
  [id            |-> stable_id(op.item.link),
   title         |-> op.item.title,
   status        |-> "paas-backlog",
   priority      |-> IF op.score >= PRIORITY_P1_SCORE THEN "P1" ELSE "P2",
   workstream    |-> "paas",
   owner         |-> "market-research-agent",
   score         |-> op.score,
   matched_terms |-> op.matched_terms,
   action_plan   |-> action_plan,
   source        |-> [link |-> op.item.link, feed |-> op.item.source_feed,
                      published_at |-> IF op.item.published_at # None
                                       THEN Some(isoformat(op.item.published_at[1]))
                                       ELSE None],
   ticket_path   |-> TicketPath(now, op.item.title),
   created_at    |-> isoformat(now),
   updated_at    |-> isoformat(now),
   tags          |-> <<"market-research", "opportunity", "paas">>]

\* the refresh branch rebuilding the task's board state as for a new task
RefreshTaskResetting(task, op, action_plan, now) ==
  [task EXCEPT !.updated_at = isoformat(now),
               !.score = op.score,
               !.matched_terms = op.matched_terms,
               !.action_plan = action_plan,
               !.status = "paas-backlog",
               !.priority = IF op.score >= 10 THEN "P1" ELSE "P2"]

\* the refresh branch leaving the score and the time of the update as they were
RefreshTaskStale(task, op, action_plan, now) ==
  [task EXCEPT !.matched_terms = op.matched_terms,
               !.action_plan = action_plan]

\* the existing task after the refresh branch
RefreshTask(task, op, action_plan, now) ==
  [task EXCEPT !.updated_at = isoformat(now),
               !.score = op.score,
               !.matched_terms = op.matched_terms,
               !.action_plan = action_plan]

\* create_ticket_content(op, task): the parts of the text that vary
create_ticket_content(op, task) ==
  [title      |-> op.item.title,
   source     |-> op.item.link,
   feed       |-> op.item.source_feed,
   published  |-> IF op.item.published_at # None
                  THEN Some(isoformat(op.item.published_at[1])) ELSE None,
   score      |-> op.score,
   category   |-> op.category,
   workstream |-> task.workstream,
   why        |-> task.action_plan.opportunity,
   plan       |-> task.action_plan.plan,
   experiment |-> task.action_plan.experiment]

\* the budget test one task early
BudgetSpentEarly(created_tasks, max_new_tickets) ==
  created_tasks + 1 >= Max0(max_new_tickets)

\* the budget test with > for >=
BudgetSpentLate(created_tasks, max_new_tickets) == created_tasks > Max0(max_new_tickets)

\* whether the new-ticket budget is spent: created_tasks >= max(0, max_new_tickets)
BudgetSpent(created_tasks, max_new_tickets) == created_tasks >= Max0(max_new_tickets)

\* the loop over top, after its first k opportunities
RECURSIVE MergeLoop(_, _, _, _, _, _)
MergeLoop(k, top, existing_tasks, ticket_files, max_new_tickets, now) ==
  IF k = 0
  THEN [existing_tasks |-> existing_tasks,
        existing_by_source |-> ExistingBySource(existing_tasks),
        created_tasks |-> 0, created_ticket_paths |-> <<>>,
        tickets |-> ticket_files]
  ELSE LET m   == MergeLoop(k - 1, top, existing_tasks, ticket_files, max_new_tickets, now)
           op  == top[k]
           key == op.item.link
           action_plan == build_action_plan(op)
       IN  IF key \in DOMAIN m.existing_by_source
           THEN LET i == m.existing_by_source[key]
                IN  [m EXCEPT !.existing_tasks[i] = RefreshTask(@, op, action_plan, now)]
           ELSE IF BudgetSpent(m.created_tasks, max_new_tickets) THEN m
           ELSE LET task == NewTask(op, action_plan, now)
                    path == task.ticket_path
                    w    == write_if_changed(FileAt(m.tickets, path),
                                             create_ticket_content(op, task))
                IN  [existing_tasks |-> Append(m.existing_tasks, task),
                     existing_by_source |->
                       [l \in DOMAIN m.existing_by_source \cup {key} |->
                          IF l = key THEN Len(m.existing_tasks) + 1
                          ELSE m.existing_by_source[l]],
                     created_tasks |-> m.created_tasks + 1,
                     created_ticket_paths |-> Append(m.created_ticket_paths, path),
                     tickets |-> WithFile(m.tickets, path, w.file[1])]

HISTORY_MAX == 50

\* xs[:n] for xs[-n:]
FirstN(xs, n) == SubSeq(xs, 1, Min(n, Len(xs)))

\* xs[-n:]
LastN(xs, n) == SubSeq(xs, Max0(Len(xs) - n) + 1, Len(xs))

\* the record appended to board["history"]
HistoryRecord(now, deduped, top, created_tasks) ==
  [ran_at |-> isoformat(now), signals_scanned |-> Len(deduped),
   top_opportunities |-> Len(top), new_tasks |-> created_tasks]

\* board["history"] after the append and the truncation
NextHistory(history, record) == LastN(Append(history, record), HISTORY_MAX)

---------------------------------------------------------------------------
(* The rendered artifacts *)

\* the labels "P1" < "P2" < "P3", as Python compares them
PRIORITY_ORDER == <<"P1", "P2", "P3">>

\* the key col_tasks is sorted by: (priority, created_at)
MdKey(task) == <<IndexOf(task.priority, PRIORITY_ORDER), task.created_at.iso>>

\* the lines of one task in its column
MdTask(task) ==
  [priority |-> task.priority, title |-> task.title, owner |-> task.owner,
   workstream |-> task.workstream, ticket |-> task.ticket_path,
   plan |-> task.action_plan.plan]

\* the section of one column: its name and its tasks (none: the placeholder)
MdColumn(col, tasks) ==
  LET col_tasks == SelectSeq(tasks, LAMBDA t : t.status = col.id)
      order     == SortOrder([i \in 1..Len(col_tasks) |-> MdKey(col_tasks[i])])
  IN  [name |-> col.name,
       tasks |-> [i \in 1..Len(col_tasks) |-> MdTask(col_tasks[order[i]])]]

\* render_board_markdown(board)
render_board_markdown(board) ==
  [updated |-> board.updated_at,
   columns |-> [c \in 1..Len(board.columns) |-> MdColumn(board.columns[c], board.tasks)]]

\* the entry of one top opportunity in the report
ReportEntry(op) ==
  [title |-> op.item.title, link |-> op.item.link, score |-> op.score,
   category |-> op.category, matched_terms |-> op.matched_terms,
   action |-> build_action_plan(op).plan,
   experiment |-> build_action_plan(op).experiment]

\* the text of the daily report
ReportText(now, deduped, opportunities, top, created_tasks, feed_errors) ==
  [date |-> utc_date(now), signals_scanned |-> Len(deduped),
   scored |-> Len(opportunities), considered |-> Len(top),
   new_tasks |-> created_tasks,
   top |-> [i \in 1..Len(top) |-> ReportEntry(top[i])],
   feed_errors |-> feed_errors]

\* report_dir / "<date>-market-opportunities.md"
ReportPath(now) == utc_date(now)

---------------------------------------------------------------------------
(* main() *)

\* main() up to the ranking: what it fetched, deduplicated, scored and kept.
\* served says what each feed answers, now is the value of now_utc().
Scan(served, max_opportunities, now) ==
  LET f             == FetchLoop(Len(FEEDS), served)
      deduped       == Dedup(f.fetched_items)
      opportunities == SortByKey(ScoreLoop(Len(deduped), deduped, now))
  IN  [fetched_items |-> f.fetched_items, feed_errors |-> f.feed_errors,
       attempted |-> f.attempted,
       deduped |-> deduped, opportunities |-> opportunities,
       top |-> TopOf(opportunities, max_opportunities)]

\* Scan tabulated over the inputs of the model (it reads no file)
SCAN_TABLE ==
  Tabulated([served \in STEADY_SERVED, caps \in CAPS, now \in NOW_VALUES |->
               Scan(served, caps.max_opportunities, now)])

\* a board written with the tasks of this run's top opportunities only
BoardAfterTopOnly(board, f, m, now) ==
  [board EXCEPT
     !.tasks = SelectSeq(m.existing_tasks,
                         LAMBDA task : task.source.link \in
                                         {f.top[i].item.link : i \in 1..Len(f.top)}),
     !.updated_at = isoformat(now),
     !.history = NextHistory(@, HistoryRecord(now, f.deduped, f.top, m.created_tasks))]

\* board after the loop: its tasks, updated_at and history set
BoardAfter(board, f, m, now) ==
  [board EXCEPT
     !.tasks = m.existing_tasks,
     !.updated_at = isoformat(now),
     !.history = NextHistory(@, HistoryRecord(now, f.deduped, f.top, m.created_tasks))]

\* what main() leaves: its locals, every file as written, the summary.
\* f is the scan, board the board as loaded, m the loop's result, written the
\* board it serialises, wj, wm and wr what the three writes did.
MainResult(served, caps, now, f, board, m, written, wj, wm, wr) ==
  [locals |->
     [now |-> now, served |-> served, caps |-> caps,
      fetched_items |-> f.fetched_items, feed_errors |-> f.feed_errors,
      attempted |-> f.attempted,
      deduped |-> f.deduped, opportunities |-> f.opportunities, top |-> f.top,
      board_file |-> board_json, loaded |-> board, board |-> written,
      exit_code |-> 0],   \* return 0
   board_json |-> wj.file,
   board_md   |-> wm.file,
   tickets    |-> m.tickets,
   reports    |-> WithFile(reports, ReportPath(now), wr.file[1]),
   summary    |->
     [status |-> "ok", signals_scanned |-> Len(f.deduped),
      scored_opportunities |-> Len(f.opportunities),
      top_opportunities |-> Len(f.top),
      new_tasks |-> m.created_tasks, board_json_changed |-> wj.changed,
      board_md_changed |-> wm.changed, report_changed |-> wr.changed,
      report_path |-> ReportPath(now),
      created_ticket_paths |-> m.created_ticket_paths,
      feed_errors |-> f.feed_errors]]

\* the one element of a singleton.  The stages of main() below bind each local
\* to its value through a singleton, so that it is computed once.
Only(S) == CHOOSE x \in S : TRUE

\* main() from the writes of the board on
MainWrite(served, caps, now, f, board, m, written) ==
  Only({MainResult(served, caps, now, f, board, m, written, wj, wm, wr) :
          wj \in {write_if_changed(board_json, BoardText(written))},
          wm \in {write_if_changed(board_md, render_board_markdown(written))},
          wr \in {write_if_changed(FileAt(reports, ReportPath(now)),
                                   ReportText(now, f.deduped, f.opportunities, f.top,
                                              m.created_tasks, f.feed_errors))}})

\* main() from the end of the loop over top on
MainAfterLoop(served, caps, now, f, board, m) ==
  Only({MainWrite(served, caps, now, f, board, m, written) :
          written \in {BoardAfter(board, f, m, now)}})

\* main() from the loop over top on
MainMerge(served, caps, now, f, board) ==
  Only({MainAfterLoop(served, caps, now, f, board, m) :
          m \in {MergeLoop(Len(f.top), f.top, board.tasks, tickets,
                           caps.max_new_tickets, now)}})

\* main() run against the files now on disk
Main(served, caps, now) ==
  Only({MainMerge(served, caps, now, f, board) :
          f \in {SCAN_TABLE[served, caps, now]},
          board \in {load_json_or_default(board_json, default_board(now))}})

---------------------------------------------------------------------------
(* The state machine *)

NoRun ==
  [now |-> 0, served |-> [f \in Range(FEEDS) |-> Returns(<<>>)],
   caps |-> [max_opportunities |-> 0, max_new_tickets |-> 0],
   fetched_items |-> <<>>, feed_errors |-> <<>>, attempted |-> <<>>,
   deduped |-> <<>>, opportunities |-> <<>>, top |-> <<>>,
   board_file |-> None, loaded |-> default_board(0), board |-> default_board(0),
   exit_code |-> 0]

NoScan ==
  [fetched_items |-> <<>>, feed_errors |-> <<>>, attempted |-> <<>>,
   deduped |-> <<>>, opportunities |-> <<>>, top |-> <<>>]

NoProbe ==
  [fn |-> "none", item |-> FeedItem("", "", None, ""), now |-> 0,
   served |-> NoRun.served, done |-> FALSE, scored |-> None, scanned |-> NoScan,
   file |-> None, content |-> [chars |-> <<>>],
   wrote |-> [file |-> None, changed |-> FALSE],
   rewrote |-> [file |-> None, changed |-> FALSE]]

NoFiles == <<>>

Init ==
  /\ clock = PUBLISHED + RECENT_DAYS * Day
  /\ board_json \in {None, Some(Garbage)}
  /\ board_md = None
  /\ tickets = NoFiles
  /\ reports = NoFiles
  /\ summary = None
  /\ run = NoRun
  /\ edits = 0
  /\ probe = NoProbe

\* one execution of main(), from its start to its return: r is what it leaves
Returned(r) ==
  /\ clock' = r.locals.now
  /\ board_json' = r.board_json
  /\ board_md' = r.board_md
  /\ tickets' = r.tickets
  /\ reports' = r.reports
  /\ summary' = Some(r.summary)
  /\ run' = r.locals
  /\ UNCHANGED <<edits, probe>>

RunWith(served, caps, now) == \E r \in {Main(served, caps, now)} : Returned(r)

\* the runs recorded in the history of the board file
RunsRecorded ==
  Len(load_json_or_default(board_json, default_board(0)).history)

Run ==
  /\ RunsRecorded < MaxRuns
  /\ \E served \in SERVED, caps \in CAPS, now \in NOW_VALUES :
       /\ now >= clock
       /\ RunWith(served, caps, now)

\* someone edits one task of the board file by hand
ManualEdit ==
  /\ edits < MaxEdits
  /\ board_json # None
  /\ board_json[1].parses
  /\ \E i \in 1..Len(board_json[1].value.tasks), e \in MANUAL_EDITS :
       board_json' = Some(BoardText(
         [board_json[1].value EXCEPT
            !.tasks[i] = [@ EXCEPT !.status = e.status, !.priority = e.priority,
                                   !.owner = e.owner, !.ticket_path = e.ticket_path]]))
  /\ edits' = edits + 1
  /\ UNCHANGED <<clock, board_md, tickets, reports, summary, run, probe>>

Next == Run \/ ManualEdit

Spec == Init /\ [][Next]_vars

---------------------------------------------------------------------------
(* The scout run again and again on feeds that keep serving the same *)

\* a board file somebody set up with columns of their own, and no task yet
OWN_COLUMNS ==
  << [id |-> "inbox", name |-> "Inbox"],
     [id |-> "todo",  name |-> "To do"],
     [id |-> "done",  name |-> "Done"] >>

OwnBoard == [default_board(0) EXCEPT !.columns = OWN_COLUMNS]

SteadyInit ==
  /\ clock = PUBLISHED + RECENT_DAYS * Day
  /\ board_json \in {None, Some(Garbage), Some(BoardText(OwnBoard))}
  /\ board_md = None
  /\ tickets = NoFiles
  /\ reports = NoFiles
  /\ summary = None
  /\ run = NoRun
  /\ edits = 0
  /\ probe = NoProbe

\* the first run, with any arguments
FirstRun ==
  /\ summary = None
  /\ \E served \in STEADY_SERVED, caps \in CAPS, now \in NOW_VALUES :
       /\ now >= clock
       /\ RunWith(served, caps, now)

\* a later run with the arguments of the run before it, at a time at which the
\* feeds yield the same scored opportunities
Rerun ==
  /\ summary # None
  /\ \E now \in NOW_VALUES :
       /\ now >= clock
       /\ SCAN_TABLE[run.served, run.caps, now].opportunities = run.opportunities
       /\ RunWith(run.served, run.caps, now)

SteadyNext == FirstRun \/ Rerun

\* the scout is run periodically: a rerun that is due happens
SteadySpec == SteadyInit /\ [][SteadyNext]_vars /\ WF_vars(Rerun)

---------------------------------------------------------------------------
(* Single calls of the pure functions *)

MaxFeedLen == 2   \* the entries one feed serves in a call of the scan

TITLE_EMAIL_CHAIN == "Email chain"
TITLE_HELLO == "Hello"
TITLE_PRICE == "Price"
LINK_LLM == "x.io/llm"

PROBE_TITLES ==
  {TITLE_AI_PRICING, TITLE_AI_AGENT, TITLE_GITHUB, TITLE_GROWTH,
   TITLE_EMAIL_CHAIN, TITLE_HELLO, TITLE_PRICE}

PROBE_LINKS == {LINK_1, LINK_LLM}

PROBE_NOWS == {PUBLISHED + RECENT_DAYS * Day, PUBLISHED + RECENT_DAYS * Day + 1}

\* ages, at the first of PROBE_NOWS, on either side of both tiers
PROBE_AGES ==
  {0 - 1, 0, RECENT_DAYS * Day - 1, RECENT_DAYS * Day, RECENT_DAYS * Day + 1,
   MONTH_DAYS * Day - 1, MONTH_DAYS * Day, MONTH_DAYS * Day + 1}

PROBE_PUBLISHED ==
  {None} \cup {Some(PUBLISHED + RECENT_DAYS * Day - age) : age \in PROBE_AGES}

SeqsUpTo(S, n) == UNION {[1..k -> S] : k \in 0..n}

PROBE_RESPONSES ==
  {Raises("timed out")} \cup {Returns(es) : es \in SeqsUpTo(PROBE_POOL, MaxFeedLen)}

ScoreProbes ==
  {[NoProbe EXCEPT !.fn = "score_item",
                   !.item = FeedItem(title, link, published_at, FEEDS[1]),
                   !.now = now] :
     title \in PROBE_TITLES, link \in PROBE_LINKS,
     published_at \in PROBE_PUBLISHED, now \in PROBE_NOWS}

ScanProbes ==
  {[NoProbe EXCEPT !.fn = "scan", !.served = served, !.now = now] :
     served \in [Range(FEEDS) -> PROBE_RESPONSES], now \in PROBE_NOWS}

\* the characters a text is made of here, and its length at most
TEXT_CHARS == {"a", CR, LF}
MaxTextLen == 2

PROBE_TEXTS == {[chars |-> cs] : cs \in SeqsUpTo(TEXT_CHARS, MaxTextLen)}

WriteProbes ==
  {[NoProbe EXCEPT !.fn = "write_if_changed", !.file = file, !.content = content] :
     file \in {None} \cup {Some(t) : t \in PROBE_TEXTS}, content \in PROBE_TEXTS}

PureInit ==
  /\ clock = PUBLISHED + RECENT_DAYS * Day
  /\ board_json = None
  /\ board_md = None
  /\ tickets = NoFiles
  /\ reports = NoFiles
  /\ summary = None
  /\ run = NoRun
  /\ edits = 0
  /\ probe \in ScoreProbes \cup ScanProbes \cup WriteProbes

\* score_item(item) is called while now_utc() returns probe.now
CallScoreItem ==
  /\ probe.fn = "score_item"
  /\ ~probe.done
  /\ probe' = [probe EXCEPT !.done = TRUE,
                            !.scored = score_item(probe.item, probe.now)]
  /\ UNCHANGED <<clock, board_json, board_md, tickets, reports, summary, run, edits>>

\* main() up to the ranking, run on what the feeds serve while now_utc()
\* returns probe.now
CallScan ==
  /\ probe.fn = "scan"
  /\ ~probe.done
  /\ probe' = [probe EXCEPT !.done = TRUE,
                            !.scanned = Scan(probe.served, MAX_OPPORTUNITIES_DEFAULT,
                                             probe.now)]
  /\ UNCHANGED <<clock, board_json, board_md, tickets, reports, summary, run, edits>>

\* write_if_changed(path, content) is called on the file, and then once more
\* with the same arguments
CallWrite ==
  /\ probe.fn = "write_if_changed"
  /\ ~probe.done
  /\ \E w \in {write_if_changed(probe.file, probe.content)} :
       probe' = [probe EXCEPT !.done = TRUE,
                              !.wrote = w,
                              !.rewrote = write_if_changed(w.file, probe.content)]
  /\ UNCHANGED <<clock, board_json, board_md, tickets, reports, summary, run, edits>>

PureNext == CallScoreItem \/ CallScan \/ CallWrite

PureSpec == PureInit /\ [][PureNext]_vars

---------------------------------------------------------------------------
(* What the properties below speak of *)

\* main() has run at least once
Ran == summary # None

\* the links of the tasks of a task list
LinksOf(tasks) == {tasks[i].source.link : i \in 1..Len(tasks)}

\* the links of a list of opportunities
OpLinks(ops) == {ops[i].item.link : i \in 1..Len(ops)}

\* the opportunity of a link in a list of opportunities that holds it
OpOf(ops, link) == ops[CHOOSE i \in 1..Len(ops) : ops[i].item.link = link]

\* the tasks the latest run loaded, and the tasks it wrote
Loaded == run.loaded.tasks
Written == run.board.tasks

\* the step is a run of main() (a manual edit counts the edits)
IsRunStep == edits' = edits

\* the board files are as the latest run left them
FilesAsLeft ==
  /\ board_json = Some(BoardText(run.board))
  /\ board_md = Some(render_board_markdown(run.board))

---------------------------------------------------------------------------
(* C1 *)

\* C1: a run executed against the board files left by the run before it, with
\* the same scored opportunities, writes neither the board JSON nor the board
\* Markdown nor a ticket: both changed flags are false and every file but the
\* summary is as it was.
C1_IdempotentRerun ==
  [][(IsRunStep /\ Ran /\ FilesAsLeft /\ run'.opportunities = run.opportunities)
       => /\ ~summary'[1].board_json_changed
          /\ ~summary'[1].board_md_changed
          /\ board_json' = board_json
          /\ board_md' = board_md
          /\ tickets' = tickets
          /\ reports' = reports]_vars

---------------------------------------------------------------------------
(* C2 *)

\* C2: from a missing (or unreadable) board on, after any runs with any feed
\* contents, caps and clock values, no two tasks of the persisted board have
\* the same source.link.
C2_NoDuplicateTasks ==
  (board_json # None /\ board_json[1].parses) =>
    LET tasks == board_json[1].value.tasks
    IN  \A i, j \in 1..Len(tasks) :
          i # j => tasks[i].source.link # tasks[j].source.link

\* a run in which the link of a persisted task came back among the top
\* opportunities while another link got its task
C2_Witness ==
  /\ Ran
  /\ LinksOf(Loaded) \cap OpLinks(run.top) # {}
  /\ Len(Written) > Len(Loaded)
  /\ FilesAsLeft

---------------------------------------------------------------------------
(* C3 *)

\* C3: a run leaves status, priority, ticket_path and owner (and id, title,
\* source, created_at) of every loaded task whose link is the link of a top
\* opportunity as loaded, whatever a manual edit made of them, and sets score,
\* matched_terms, action_plan and updated_at from the opportunity and the run.
C3_RefreshPreservesManualState ==
  Ran =>
    \A i \in 1..Len(Loaded) :
      Loaded[i].source.link \in OpLinks(run.top) =>
        LET old == Loaded[i]
            new == Written[i]
            op  == OpOf(run.top, old.source.link)
        IN  /\ new.status = old.status
            /\ new.priority = old.priority
            /\ new.ticket_path = old.ticket_path
            /\ new.owner = old.owner
            /\ new.id = old.id
            /\ new.title = old.title
            /\ new.source = old.source
            /\ new.created_at = old.created_at
            /\ new.score = op.score
            /\ new.matched_terms = op.matched_terms
            /\ new.action_plan = PLAYBOOK_BY_CATEGORY[op.category]
            /\ new.updated_at = isoformat(run.now)

\* a task edited by hand to done and P3 whose link came back: it is still done
\* and P3, with another score and another plan
C3_Witness ==
  /\ Ran
  /\ \E i \in 1..Len(Loaded) :
       /\ Loaded[i].status = "done"
       /\ Loaded[i].priority = "P3"
       /\ Loaded[i].source.link \in OpLinks(run.top)
       /\ Written[i].status = "done"
       /\ Written[i].priority = "P3"
       /\ Written[i].score # Loaded[i].score
       /\ Written[i].action_plan # Loaded[i].action_plan

---------------------------------------------------------------------------
(* C4 *)

\* the four refreshed fields of the i-th loaded task are those of op in this run
RefreshedFrom(i, op) ==
  /\ Written[i].score = op.score
  /\ Written[i].matched_terms = op.matched_terms
  /\ Written[i].action_plan = PLAYBOOK_BY_CATEGORY[op.category]
  /\ Written[i].updated_at = isoformat(run.now)

\* C4 as claimed: in every run in which the link of a persisted task is among
\* the scored opportunities (the items that cleared the threshold), the task's
\* score, matched_terms, action_plan and updated_at are those of this run.
C4_RefreshWhenScored ==
  Ran =>
    \A i \in 1..Len(Loaded) :
      Loaded[i].source.link \in OpLinks(run.opportunities) =>
        RefreshedFrom(i, OpOf(run.opportunities, Loaded[i].source.link))

\* C4 as amended: in every run in which the link of a persisted task is among
\* the top opportunities (the first max_opportunities of the ranking), the
\* task's score, matched_terms, action_plan and updated_at are those of this run.
C4_RefreshWhenTop ==
  Ran =>
    \A i \in 1..Len(Loaded) :
      Loaded[i].source.link \in OpLinks(run.top) =>
        RefreshedFrom(i, OpOf(run.top, Loaded[i].source.link))

\* a later run, at a later time, found the link of a persisted task among its
\* top opportunities with another score
C4_Witness ==
  /\ Ran
  /\ \E i \in 1..Len(Loaded) :
       /\ Loaded[i].source.link \in OpLinks(run.top)
       /\ Loaded[i].score # OpOf(run.top, Loaded[i].source.link).score
       /\ Loaded[i].updated_at # isoformat(run.now)
       /\ Written[i].score = OpOf(run.top, Loaded[i].source.link).score

---------------------------------------------------------------------------
(* C5 *)

\* the top opportunities of the latest run whose link had no task, in rank order
Unseen == SelectSeq(run.top, LAMBDA op : op.item.link \notin LinksOf(Loaded))

\* the tasks the latest run created
Created == SubSeq(Written, Len(Loaded) + 1, Len(Written))

\* the feeds that failed in the latest run, in list order
FailedFeeds == SelectSeq(FEEDS, LAMBDA f : ~run.served[f].ok)

\* C5: a run creates at most max(0, max_new_tickets) tasks; they are the first
\* min(max_new_tickets, k) of the k top opportunities without a task, in rank
\* order; refreshed tasks use no budget; an opportunity skipped for the budget
\* adds no task and no entry to feed_errors.
C5_TicketBudget ==
  Ran =>
    LET max_new_tickets == run.caps.max_new_tickets
        taken == SubSeq(Unseen, 1, Min(max_new_tickets, Len(Unseen)))
    IN  /\ summary[1].new_tasks = Len(Created)
        /\ Len(summary[1].created_ticket_paths) = Len(Created)
        /\ Len(Created) <= Max0(max_new_tickets)
        /\ Len(Created) = Len(taken)
        /\ \A n \in 1..Len(taken) :
             /\ Created[n].source.link = taken[n].item.link
             /\ summary[1].created_ticket_paths[n] = Created[n].ticket_path
        /\ Len(Written) = Len(Loaded) + Len(taken)
        /\ Len(summary[1].feed_errors) = Len(FailedFeeds)
        /\ \A n \in 1..Len(FailedFeeds) :
             summary[1].feed_errors[n][1] = FailedFeeds[n]

\* max_new_tickets is 1, a persisted task ranks first and is refreshed, two
\* links without a task follow it: the first of them alone gets a task
C5_Witness ==
  /\ Ran
  /\ run.caps.max_new_tickets = 1
  /\ Len(run.top) = 3
  /\ run.top[1].item.link \in LinksOf(Loaded)
  /\ Len(Unseen) = 2
  /\ summary[1].new_tasks = 1
  /\ Created[1].source.link = Unseen[1].item.link

---------------------------------------------------------------------------
(* C6 *)

\* the top opportunities of the run this step makes whose link has no task yet,
\* in rank order
UnseenNext ==
  SelectSeq(run'.top, LAMBDA op : op.item.link \notin LinksOf(run'.loaded.tasks))

\* every top opportunity of the latest run has a task on the board
AllTopHaveTasks == Ran /\ OpLinks(run.top) \subseteq LinksOf(Written)

\* C6: a top opportunity a run skipped for the budget gets its task in the next
\* run in which its link is among the top opportunities with fewer than
\* max_new_tickets links without a task ranked ahead of it; and when the same
\* opportunities come back on every run with max_new_tickets >= 1, every top
\* opportunity eventually has a task.
C6_DeferredNotLost ==
  /\ [][(Ran /\ IsRunStep) =>
          \A link \in OpLinks(run.top) \ LinksOf(Written) :
            \A n \in 1..Len(UnseenNext) :
              (UnseenNext[n].item.link = link /\ n <= run'.caps.max_new_tickets)
                => link \in LinksOf(run'.board.tasks)]_vars
  /\ (Ran /\ run.caps.max_new_tickets >= 1) ~> AllTopHaveTasks

\* a rerun with max_new_tickets = 1 gave a task to a link the run before it
\* had among its top opportunities and skipped
C6_Witness ==
  /\ Ran
  /\ run.caps.max_new_tickets = 1
  /\ Len(run.loaded.history) >= 1
  /\ Len(Loaded) >= 1
  /\ Len(Created) = 1
  /\ Created[1].source.link \in OpLinks(run.top)
  /\ AllTopHaveTasks

---------------------------------------------------------------------------
(* C7 *)

\* C7: a run appends one record (ran_at, signals_scanned = deduplicated items,
\* top_opportunities = top opportunities, new_tasks = tasks created) to the
\* history it loaded and keeps the last 50: the persisted history has at most
\* 50 records, the record of the latest run last, the earlier ones before it
\* in run order.
C7_BoundedHistory ==
  Ran =>
    LET old == run.loaded.history
        new == board_json[1].value.history
        dropped == Len(old) + 1 - Len(new)
    IN  /\ Len(new) = Min(Len(old) + 1, 50)
        /\ Len(new) <= 50
        /\ new[Len(new)] = [ran_at |-> isoformat(run.now),
                            signals_scanned |-> Len(run.deduped),
                            top_opportunities |-> Len(run.top),
                            new_tasks |-> Len(Written) - Len(Loaded)]
        /\ \A i \in 1..(Len(new) - 1) : new[i] = old[i + dropped]

\* the run loaded a history of 50 records whose first one, of a run that
\* created tasks, is no longer in the history it wrote
C7_Witness ==
  /\ Ran
  /\ Len(run.loaded.history) = 50
  /\ Len(board_json[1].value.history) = 50
  /\ run.loaded.history[1].new_tasks > 0
  /\ board_json[1].value.history[1].new_tasks = 0

---------------------------------------------------------------------------
(* C8 *)

\* the items of one feed as served, none for a feed that failed
ServedItems(served, feed_url) ==
  [i \in 1..Len(served[feed_url].entries) |->
     FeedItem(served[feed_url].entries[i].title, served[feed_url].entries[i].link,
              served[feed_url].entries[i].published_at, feed_url)]

\* the positions of a list of items at which a link occurs for the first time
FirstOccurrences(items) ==
  {i \in 1..Len(items) : \A j \in 1..(i - 1) : items[j].link # items[i].link}

\* C8: of the items fetched, in feed-list order and item order within a feed,
\* the first one of every link, and no other, goes on to scoring, in the order
\* fetched; a later item of the same link never takes its place, dated or not.
C8_DedupByLink ==
  (probe.fn = "scan" /\ probe.done) =>
    LET all     == ServedItems(probe.served, FEEDS[1]) \o ServedItems(probe.served, FEEDS[2])
        first   == FirstOccurrences(all)
        deduped == probe.scanned.deduped
    IN  /\ probe.scanned.fetched_items = all
        /\ Len(deduped) = Cardinality(first)
        /\ \A i \in first : deduped[Cardinality({j \in first : j <= i})] = all[i]

\* an undated item came first and a dated one of the same link after it: the
\* undated one alone went on
C8_Witness ==
  /\ probe.fn = "scan"
  /\ probe.done
  /\ \E i, j \in 1..Len(probe.scanned.fetched_items) :
       /\ i < j
       /\ probe.scanned.fetched_items[i].link = probe.scanned.fetched_items[j].link
       /\ probe.scanned.fetched_items[i].published_at = None
       /\ probe.scanned.fetched_items[j].published_at # None
       /\ probe.scanned.fetched_items[i] \in Range(probe.scanned.deduped)
       /\ probe.scanned.fetched_items[j] \notin Range(probe.scanned.deduped)

---------------------------------------------------------------------------
(* C9 *)

\* the (category, keyword) pairs of the table whose keyword occurs in the
\* lowercased "title link" text of item
KeywordsIn(item) ==
  {kt \in UNION {{<<k, t>> : t \in 1..Len(KEYWORD_WEIGHTS[k].terms)} :
                   k \in 1..Len(KEYWORD_WEIGHTS)} :
     Contains(Chars(KEYWORD_WEIGHTS[kt[1]].terms[kt[2]]),
              Lower(Chars(item.title) \o <<" ">> \o Chars(item.link)))}

\* the sum of the weights of the keywords that occur, each counted once
KeywordSum(item) ==
  LET hits == KeywordsIn(item)
  IN  Sum([kt \in hits |-> KEYWORD_WEIGHTS[kt[1]].weight], hits)

\* C9: score_item returns no opportunity iff the sum of the weights of the
\* keywords that occur, plus the recency bonus, is below 4; otherwise the
\* opportunity's score is that total and its item is the item given.
C9_ScoreAndThreshold ==
  (probe.fn = "score_item" /\ probe.done) =>
    LET total == KeywordSum(probe.item) + RecencyBonus(probe.item.published_at, probe.now)
    IN  /\ (probe.scored = None) <=> (total < 4)
        /\ probe.scored # None =>
             /\ probe.scored[1].score = total
             /\ probe.scored[1].item = probe.item

\* a total of exactly 4 (one keyword of weight 3 and a bonus of 1) was retained
C9_Witness ==
  /\ probe.fn = "score_item"
  /\ probe.done
  /\ KeywordSum(probe.item) = 3
  /\ probe.scored # None
  /\ probe.scored[1].score = 4

---------------------------------------------------------------------------
(* C10 *)

\* the bonus by age: 3 up to 7 days, 1 up to 30 days, 0 beyond and when undated
BonusByAge(published_at, now) ==
  IF published_at = None THEN 0
  ELSE IF now - published_at[1] <= 7 * 24 * 60 * 60 THEN 3
  ELSE IF now - published_at[1] <= 30 * 24 * 60 * 60 THEN 1
  ELSE 0

\* C10: the bonus score_item adds to the keyword total is 3 when the age is at
\* most 7 days (7 days 0 seconds included), 1 when it is more than 7 and at
\* most 30 days (30 days included), 0 beyond 30 days or without a publish date.
C10_RecencyBoundaries ==
  (probe.fn = "score_item" /\ probe.done) =>
    LET keywords == KeywordTotal(Len(KEYWORD_WEIGHTS), ItemText(probe.item))
        bonus    == BonusByAge(probe.item.published_at, probe.now)
    IN  IF probe.scored # None
        THEN probe.scored[1].score - keywords = bonus
        ELSE keywords + bonus < THRESHOLD

\* an item aged exactly 7 days got 3 on top of its keywords
C10_Witness ==
  /\ probe.fn = "score_item"
  /\ probe.done
  /\ probe.item.published_at # None
  /\ probe.now - probe.item.published_at[1] = 7 * 24 * 60 * 60
  /\ probe.scored # None
  /\ probe.scored[1].score
       = KeywordTotal(Len(KEYWORD_WEIGHTS), ItemText(probe.item)) + 3
  /\ probe.scored[1].score < THRESHOLD + 3

---------------------------------------------------------------------------
(* C11 *)

\* the position of the item of a link in a list of items that holds it
PositionOf(items, link) == CHOOSE i \in 1..Len(items) : items[i].link = link

\* opportunity a is ranked ahead of opportunity b by what the ranking is said
\* to be: the higher score; at equal score the dated one ahead of the undated
\* one and the newer date ahead of the older one; at equal score and date (or
\* both undated) the one that is earlier in the deduplicated list
RankedAhead(a, b, deduped) ==
  \/ a.score > b.score
  \/ /\ a.score = b.score
     /\ \/ a.item.published_at # None /\ b.item.published_at = None
        \/ /\ a.item.published_at # None /\ b.item.published_at # None
           /\ a.item.published_at[1] > b.item.published_at[1]
        \/ /\ a.item.published_at = b.item.published_at
           /\ PositionOf(deduped, a.item.link) < PositionOf(deduped, b.item.link)

\* C11: the scored opportunities are listed by score descending; at equal
\* score the one published later comes first and an undated one comes after
\* every dated one, whatever the publish timestamp of the dated one; those
\* equal on both keys keep the order of the deduplicated list.
C11_Ranking ==
  (probe.fn = "scan" /\ probe.done) =>
    \A i, j \in 1..Len(probe.scanned.opportunities) :
      i < j => RankedAhead(probe.scanned.opportunities[i],
                           probe.scanned.opportunities[j],
                           probe.scanned.deduped)

---------------------------------------------------------------------------
(* C12 *)

\* the items of the feeds that answered in the latest run, in list order
RECURSIVE ItemsOfAnswering(_)
ItemsOfAnswering(k) ==
  IF k = 0 THEN <<>>
  ELSE ItemsOfAnswering(k - 1)
         \o (IF run.served[FEEDS[k]].ok THEN ServedItems(run.served, FEEDS[k]) ELSE <<>>)

\* C12: a feed whose fetch or parse raises adds exactly one entry, its URL
\* with the error, to feed_errors and no item; the items of the feeds before
\* it are kept and every feed after it is still fetched, each feed being
\* attempted exactly once, in list order; the run still returns 0 and writes
\* its summary, which lists the errors.
C12_FeedFailureTolerated ==
  Ran =>
    /\ run.attempted = FEEDS
    /\ run.feed_errors
         = [i \in 1..Len(FailedFeeds) |->
              <<FailedFeeds[i], run.served[FailedFeeds[i]].error>>]
    /\ run.fetched_items = ItemsOfAnswering(Len(FEEDS))
    /\ run.exit_code = 0
    /\ summary[1].status = "ok"
    /\ summary[1].feed_errors = run.feed_errors

\* the first feed answered with items and the second one raised: the items
\* of the first are kept and scored, one error is listed
C12_Witness ==
  /\ Ran
  /\ run.served[FEEDS[1]].ok
  /\ ~run.served[FEEDS[2]].ok
  /\ Len(run.feed_errors) = 1
  /\ run.attempted = FEEDS
  /\ run.fetched_items # <<>>
  /\ run.top # <<>>
  /\ summary[1].feed_errors = <<<<FEEDS[2], "not well-formed">>>>

---------------------------------------------------------------------------
(* C13 *)

\* the latest run found no board file, or one that json.loads rejects
BoardUnreadable == run.board_file = None \/ ~run.board_file[1].parses

---------------------------------------------------------------------------
(* C14 *)

\* C14: a run removes no task and reorders none: the tasks it loaded are
\* written back at their positions, those whose link is not among the top
\* opportunities exactly as loaded, and the new tasks are appended after
\* them; with no top opportunity the task list written is the list loaded.
C14_TasksPreserved ==
  Ran =>
    /\ Len(Written) >= Len(Loaded)
    /\ \A i \in 1..Len(Loaded) :
         /\ Written[i].id = Loaded[i].id
         /\ Written[i].source = Loaded[i].source
         /\ Loaded[i].source.link \notin OpLinks(run.top) => Written[i] = Loaded[i]
    /\ \A i \in (Len(Loaded) + 1)..Len(Written) :
         /\ Written[i].source.link \in OpLinks(run.top)
         /\ Written[i].source.link \notin LinksOf(Loaded)
    /\ run.top = <<>> => Written = Loaded

\* a run loaded a task edited by hand whose link was not among its top
\* opportunities, wrote it back as it was and appended a new task after it
C14_Witness ==
  /\ Ran
  /\ edits > 0
  /\ \E i \in 1..Len(Loaded) :
       /\ Loaded[i].source.link \notin OpLinks(run.top)
       /\ Loaded[i].owner # "market-research-agent"
       /\ Written[i] = Loaded[i]
  /\ Len(Written) > Len(Loaded)
  /\ board_json = Some(BoardText(run.board))

---------------------------------------------------------------------------
(* C15 *)

\* the score a category of the table accumulates on item: its weight for
\* every one of its keywords that occurs
AccumulatedScore(k, item) ==
  KEYWORD_WEIGHTS[k].weight * Cardinality({kt \in KeywordsIn(item) : kt[1] = k})

\* C15: a retained opportunity's category is the one with the largest
\* accumulated keyword score, the first such in the order pricing,
\* ai_automation, developer_workflow, compliance, go_to_market on a tie; its
\* matched_terms is the list, free of duplicates and sorted ascending, of all
\* the keywords that matched.
C15_CategoryAssignment ==
  (probe.fn = "score_item" /\ probe.done /\ probe.scored # None
     /\ KeywordsIn(probe.item) # {}) =>
    LET order == <<"pricing", "ai_automation", "developer_workflow",
                   "compliance", "go_to_market">>
        best  == CHOOSE k \in 1..Len(order) :
                   /\ \A j \in 1..Len(order) :
                        AccumulatedScore(j, probe.item) <= AccumulatedScore(k, probe.item)
                   /\ \A j \in 1..(k - 1) :
                        AccumulatedScore(j, probe.item) < AccumulatedScore(k, probe.item)
        terms == probe.scored[1].matched_terms
    IN  /\ probe.scored[1].category = order[best]
        /\ KEYWORD_WEIGHTS[best].category = order[best]
        /\ \A i, j \in 1..Len(terms) : i < j => StrLess(Chars(terms[i]), Chars(terms[j]))
        /\ Range(terms) = {KEYWORD_WEIGHTS[kt[1]].terms[kt[2]] : kt \in KeywordsIn(probe.item)}

\* "AI pricing" scores 4 for pricing and 4 for ai_automation: it was filed
\* under pricing, with both keywords listed in ascending order
C15_Witness ==
  /\ probe.fn = "score_item"
  /\ probe.done
  /\ probe.item.title = TITLE_AI_PRICING
  /\ probe.item.link = LINK_1
  /\ probe.scored # None
  /\ AccumulatedScore(1, probe.item) = AccumulatedScore(2, probe.item)
  /\ probe.scored[1].category = "pricing"
  /\ probe.scored[1].matched_terms = <<"ai", "pricing">>

---------------------------------------------------------------------------
(* C16 *)

\* C16: the recency bonus is at most 3 and the threshold is 4, so every
\* opportunity score_item returns has at least one matched keyword: its
\* matched_terms is not empty and its category is never "general".
C16_GeneralUnreachable ==
  (probe.fn = "score_item" /\ probe.done /\ probe.scored # None) =>
    /\ KeywordsIn(probe.item) # {}
    /\ probe.scored[1].matched_terms # <<>>
    /\ probe.scored[1].category # "general"
    /\ probe.scored[1].category
         \in {KEYWORD_WEIGHTS[k].category : k \in 1..Len(KEYWORD_WEIGHTS)}

\* an item whose one keyword weighs 2 was returned thanks to the recency
\* bonus of 3: it lists that keyword and is filed under the keyword's category
C16_Witness ==
  /\ probe.fn = "score_item"
  /\ probe.done
  /\ KeywordSum(probe.item) = 2
  /\ BonusByAge(probe.item.published_at, probe.now) = 3
  /\ probe.scored # None
  /\ probe.scored[1].matched_terms = <<"growth">>
  /\ probe.scored[1].category = "go_to_market"

---------------------------------------------------------------------------
(* C17 *)

\* the ids of the columns of the board the latest run loaded
LoadedColumnIds == {run.loaded.columns[i].id : i \in 1..Len(run.loaded.columns)}

\* C17: a task created by a run has priority P1 when its score is at least
\* 10 and P2 otherwise, and its initial status is the id of the second column
\* of the board the run loaded, a column that exists in that board.
C17_InitialTaskState ==
  Ran =>
    \A i \in 1..Len(Created) :
      /\ Created[i].priority = (IF Created[i].score >= 10 THEN "P1" ELSE "P2")
      /\ Created[i].status = run.loaded.columns[2].id
      /\ Created[i].status \in LoadedColumnIds

---------------------------------------------------------------------------
(* C18 *)

\* C18: write_if_changed(path, content) leaves the file untouched and returns
\* False exactly when the file exists and its content equals content;
\* otherwise it writes and returns True; the file's content afterwards equals
\* content; a second call with the same arguments always returns False.
C18_ContentIdempotentWrite ==
  (probe.fn = "write_if_changed" /\ probe.done) =>
    /\ ~probe.wrote.changed <=> probe.file = Some(probe.content)
    /\ ~probe.wrote.changed => probe.wrote.file = probe.file
    /\ probe.wrote.file = Some(probe.content)
    /\ ~probe.rewrote.changed

---------------------------------------------------------------------------
(* C19 *)

\* C19: after a run, the file at the ticket_path of every task the run
\* created holds the ticket content of that task's own opportunity, and two
\* tasks of different links created in the run never share a ticket_path,
\* also when their titles slugify to the same string.
C19_TicketPerTask ==
  Ran =>
    /\ \A i \in 1..Len(Created) :
         FileAt(tickets, Created[i].ticket_path)
           = Some(create_ticket_content(OpOf(run.top, Created[i].source.link),
                                        Created[i]))
    /\ \A i, j \in 1..Len(Created) :
         Created[i].source.link # Created[j].source.link
           => Created[i].ticket_path # Created[j].ticket_path

=============================================================================
